---- MODULE Spec2Model ----
(***************************************************************************)
(* Model of the go-kgp game coordinator (Game.Start and its helpers) of    *)
(* LisaRebecca/kalah-game.  One runner goroutine per game, the sessions    *)
(* that feed it, the matchmaker queue and the slot semaphore.  An          *)
(* unrecovered panic of a runner runs its deferred function and then       *)
(* terminates the process (crashed).                                       *)
(***************************************************************************)
EXTENDS Integers, Sequences, FiniteSets, TLC

\* ---- bounds of the model ----
MaxClients == 3
MaxGames == 2
MaxSlots == 1
MaxSimple == 1
MaxSize == 2
MaxInit == 3
MaxPart == 4
MaxPick == 2
MaxScore == 1
MaxRows == 3
MaxToken == 1
MaxName == 2
MaxDescr == 1
MaxMoves == 1
MaxGameRows == 2
MaxResults == 2
MaxActions == 3
MaxProducers == 2

\* ---- program constants ----
Timeout == 1
BoardSize == 2
BoardInit == 1
NoGame == 0
NoClient == 0
WIN == 1
DRAW == 2
LOSS == 3
RESIGN == 4
Capacity == 64

Sessions == 1..MaxClients
Games == 1..MaxGames
SideNorth == "north"
SideSouth == "south"
NoMove == [Pit |-> 0 - 1, Client |-> NoClient, Yield |-> FALSE, id |-> 0]

VARIABLES
  conf,        \* [Endless, Slots]: the configuration read by the runner
  slots,       \* number of tokens in the slots channel
  crashed,     \* TRUE once an unrecovered panic has terminated the process
  pc,          \* per game: position of its runner
  North, South, side, last, Moves, Board, timer, cli, opp,
  accepted,    \* per game: the last legal move of the current side answering
               \* last that the runner took as choice in this turn (history)
  status,      \* per session: "new" (not connected), "alive" or "dead"
  simple, nstop, nyield, game, outstanding,
  queue,       \* the matchmaker's queue of ready sessions
  death,       \* per game: sessions whose death notification waits on g.death
  sent,        \* per game: the last frame its runner sent to a client
  rid,         \* last request id handed out by Send
  board,       \* a Board value under a sequence of Sow calls
  mover,       \* the side that sows next on board
  t,           \* the Tournament: participants, their Score, active games
  rr,          \* the roundRobin system: games (made: not nil), ready, pick
  rnd,         \* the random system: done (made: not nil)
  se,          \* the singleElim system: elim
  orch,        \* the tournament's task: clients owed a Ready call, dead
               \* clients, phase, panic message
  hist,        \* history of the tournament: clients entered, pairings
               \* generated, winners against the random agent
  store,       \* the committed database: agent and game rows by id, moves
  mem,         \* the objects in memory: the Users of South and North
               \* (Id, Token, Name, Descr) and the Game (Id, State)
  dbres,       \* the last database call: which of its sub-steps succeeded
  qry,         \* the query operation under way: op, position, rows left
  chans,       \* the channels its caller supplied: closes, results received
  dbact,       \* the action channel of the first version: buffer, closes
  coord,       \* its consumer: position, actions applied, errors logged,
               \* number of actions sent so far
  wg           \* number of calls of Done on the WaitGroup handed to
               \* UpdateDatabase

gvars == <<pc, North, South, side, last, Moves, Board, timer, cli, opp,
           accepted>>
cvars == <<status, simple, nstop, nyield, game, outstanding>>
rvars == <<conf, slots, crashed, gvars, cvars, queue, death, sent, rid>>
bvars == <<board, mover>>
\* The variables the game runner and the sessions never touch.
tvars == <<t, rr, rnd, se, orch, hist>>
dvars == <<store, mem, dbres>>
avars == <<qry, chans, dbact, coord, wg>>
NotRunner == <<bvars, tvars, dvars, avars>>
vars == <<rvars, NotRunner>>

\* ---- Board ----
makeBoard(size, init) ==
  [south |-> [i \in 1..size |-> init], north |-> [i \in 1..size |-> init],
   southStore |-> 0, northStore |-> 0, init |-> init]

Pits(b, sd) == IF sd = SideNorth THEN b.north ELSE b.south

Legal(b, sd, pit) ==
  /\ pit >= 0
  /\ pit < Len(Pits(b, sd))
  /\ Pits(b, sd)[pit + 1] > 0

Over(b) ==
  \/ \A i \in 1..Len(b.north) : b.north[i] = 0
  \/ \A i \in 1..Len(b.south) : b.south[i] = 0

Opposite(sd) == IF sd = SideNorth THEN SideSouth ELSE SideNorth

Stones(b) ==
  LET RECURSIVE Sum(_, _)
      Sum(q, i) == IF i = 0 THEN 0 ELSE q[i] + Sum(q, i - 1)
  IN Sum(b.south, Len(b.south)) + Sum(b.north, Len(b.north))
       + b.southStore + b.northStore

\* One stone more in pit pos (0-based) of side sd.
AddPit(b, sd, pos) ==
  IF sd = SideNorth
    THEN [b EXCEPT !.north[pos + 1] = @ + 1]
    ELSE [b EXCEPT !.south[pos + 1] = @ + 1]

\* n stones more in the store of side sd.
AddStore(b, sd, n) ==
  IF sd = SideNorth
    THEN [b EXCEPT !.northStore = @ + n]
    ELSE [b EXCEPT !.southStore = @ + n]

\* Pit pos (0-based) of side sd emptied.
EmptyPit(b, sd, pos) ==
  IF sd = SideNorth
    THEN [b EXCEPT !.north[pos + 1] = 0]
    ELSE [b EXCEPT !.south[pos + 1] = 0]

\* The stones in hand are laid out counter-clockwise from (sd, pos); pos
\* equal to the size stands for the store behind sd's pits, which takes a
\* stone only when it is the sower's own.
RECURSIVE Distribute(_, _, _, _, _)
Distribute(b, self, stones, sd, pos) ==
  IF stones = 0 THEN [board |-> b, side |-> sd, pos |-> pos]
  ELSE IF pos = Len(b.south)
    THEN IF sd = self
           THEN Distribute(AddStore(b, self, 1), self, stones - 1,
                           Opposite(sd), 0)
           ELSE Distribute(b, self, stones, Opposite(sd), 0)
  ELSE Distribute(AddPit(b, sd, pos), self, stones - 1, sd, pos + 1)

\* Capture with the capturing stone left out of the store.
CaptureLosesStone(b, self, pos) ==
  LET op == Len(b.south) - 1 - pos IN
    EmptyPit(EmptyPit(AddStore(b, self, Pits(b, Opposite(self))[op + 1]),
                      self, pos),
             Opposite(self), op)

\* The capture rule: the last stone fell into the empty pit pos of the
\* sower's side; it and the stones opposite go to the sower's store.
Capture(b, self, pos) ==
  LET op == Len(b.south) - 1 - pos IN
    EmptyPit(EmptyPit(AddStore(b, self,
                               Pits(b, Opposite(self))[op + 1] + 1),
                      self, pos),
             Opposite(self), op)

\* The stones left in the pits of side sd go to sd's store.
Collect(b, sd) ==
  LET RECURSIVE Sum(_, _)
      Sum(q, i) == IF i = 0 THEN 0 ELSE q[i] + Sum(q, i - 1)
      n == Sum(Pits(b, sd), Len(b.south))
      c == AddStore(b, sd, n)
  IN IF sd = SideNorth
       THEN [c EXCEPT !.north = [i \in 1..Len(b.north) |-> 0]]
       ELSE [c EXCEPT !.south = [i \in 1..Len(b.south) |-> 0]]

\* The sweep rule: when one side has run empty the other side's stones
\* are moved to a store.
Sweep(b) ==
  IF \A i \in 1..Len(b.south) : b.south[i] = 0 THEN Collect(b, SideNorth)
  ELSE IF \A i \in 1..Len(b.north) : b.north[i] = 0
    THEN Collect(b, SideSouth)
  ELSE b

\* Board.Sow(self, pit) for a legal move: the board after the move and
\* whether self moves again.
Sow(b, self, pit) ==
  LET n == Pits(b, self)[pit + 1]
      d == Distribute(EmptyPit(b, self, pit), self, n, self, pit + 1)
      again == d.pos = 0 /\ d.side = Opposite(self)
      lp == d.pos - 1
      c == IF ~again /\ d.side = self /\ Pits(d.board, self)[lp + 1] = 1
             THEN Capture(d.board, self, lp)
             ELSE d.board
  IN [board |-> Sweep(c), again |-> again]

\* No Sow sequence is under way.
BoardIdle ==
  /\ board = makeBoard(1, 0)
  /\ mover = SideSouth

\* ---- Tournament ----
Clients == 1..MaxPart

\* A tournament of the clients 1..n, of which none has played yet.
Tournament(n, k) ==
  /\ t = [participants |-> [i \in 1..n |-> i],
          Score |-> [c \in Clients |-> 0],
          active |-> {}]
  /\ rr = [made |-> FALSE, games |-> {}, ready |-> << >>, pick |-> k]
  /\ rnd = [made |-> FALSE, done |-> {}]
  /\ se = [elim |-> << >>]
  /\ orch = [avail |-> 1..n, forgotten |-> {}, phase |-> "run",
             panic |-> ""]
  /\ hist = [entered |-> 1..n, generated |-> {}, winners |-> {}]

\* No tournament is configured.
TourIdle == Tournament(0, 0)

\* ---- Database (reader/writer split) ----
Sides == {SideSouth, SideNorth}

\* Nothing has been saved by the last call.
NoCall ==
  [op |-> "none", begin |-> FALSE, south |-> FALSE, north |-> FALSE,
   game |-> FALSE, move |-> FALSE, commit |-> FALSE]

\* An empty database; the users and the game in memory are unsaved.
Database(tok, nm, ds) ==
  /\ store = [agent |-> << >>, game |-> << >>, moves |-> 0]
  /\ mem = [uId |-> [s \in Sides |-> 0], Token |-> tok, Name |-> nm,
            Descr |-> ds, gId |-> 0, State |-> 0]
  /\ dbres = NoCall

\* No game is being saved.
DbIdle ==
  Database([s \in Sides |-> 0], [s \in Sides |-> 1], [s \in Sides |-> 1])

\* ---- Queries and the action channel ----
ChanNames == {"c", "gc", "mc"}

\* Channels as their caller made them: open, nothing received yet.
Fresh == [c \in ChanNames |-> [closes |-> 0, got |-> 0]]

\* No query has been called; the consumer of the action channel waits for
\* actions and none has been sent.
V1Idle ==
  /\ qry = [op |-> "none", pc |-> "none", stmt |-> 0, rows |-> 0]
  /\ chans = Fresh
  /\ dbact = [buf |-> << >>, closes |-> 0]
  /\ coord = [pc |-> "loop", applied |-> << >>, logged |-> << >>,
              sends |-> 0]
  /\ wg = 0

\* ---- Game helpers ----
Player(g, sd) == IF sd = SideNorth THEN North[g] ELSE South[g]

Current(g) == Player(g, side[g])

IsCurrent(g, c, ref) ==
  /\ g # NoGame
  /\ Current(g) = c
  /\ (last[g] = ref \/ ref = 0)

Other(g, c) ==
  IF c = North[g]
    THEN (IF game[North[g]] = NoGame THEN NoClient ELSE South[g])
    ELSE (IF game[South[g]] = NoGame THEN NoClient ELSE North[g])

\* ---- Session (Client) interface used by the runner ----
\* A frame written to the connection of client c.
Frame(c, tag, id) == [to |-> c, tag |-> tag, id |-> id]

\* Forget with only North's reference cleared.
ForgetNorthOnly(gm, g) ==
  [s \in Sessions |-> IF s = North[g] THEN NoGame ELSE gm[s]]

\* The deferred function of Start: both clients forget the game.
Forget(gm, g) ==
  [s \in Sessions |-> IF s = North[g] \/ s = South[g] THEN NoGame ELSE gm[s]]

\* Release with the token kept.
ReleaseNone(n) == n

\* Returning a token to the slots channel (nil channel when Slots = 0).
Release(n) == IF conf.Slots > 0 THEN n + 1 ELSE n

\* The sessions of q have connected, chosen their dialect and enqueued
\* themselves; no game has been made yet.  Sessions are interchangeable,
\* so the ones in simple dialect are taken from the head of the queue.
InitQueue(q) ==
  /\ conf \in [Endless : BOOLEAN, Slots : {0, MaxSlots}]
  /\ slots = conf.Slots
  /\ crashed = FALSE
  /\ pc = [g \in Games |-> "none"]
  /\ North = [g \in Games |-> NoClient]
  /\ South = [g \in Games |-> NoClient]
  /\ side = [g \in Games |-> SideSouth]
  /\ last = [g \in Games |-> 0]
  /\ Moves = [g \in Games |-> << >>]
  /\ Board = [g \in Games |-> makeBoard(BoardSize, BoardInit)]
  /\ timer = [g \in Games |-> 0]
  /\ cli = [g \in Games |-> NoClient]
  /\ opp = [g \in Games |-> NoClient]
  /\ accepted = [g \in Games |-> NoMove]
  /\ status = [s \in Sessions |-> IF s <= Len(q) THEN "alive" ELSE "new"]
  /\ \E n \in {0, MaxSimple} : simple = [s \in Sessions |-> s <= n]
  /\ nstop = [s \in Sessions |-> 0]
  /\ nyield = [s \in Sessions |-> 0]
  /\ game = [s \in Sessions |-> NoGame]
  /\ outstanding = [s \in Sessions |-> {}]
  /\ queue = q
  /\ death = [g \in Games |-> {}]
  /\ sent = [g \in Games |-> Frame(NoClient, "none", 0)]
  /\ rid = 0
  /\ BoardIdle
  /\ TourIdle
  /\ DbIdle
  /\ V1Idle

\* No session has connected and no game has been made.
RunnerIdle ==
  /\ conf = [Endless |-> FALSE, Slots |-> 0]
  /\ slots = 0
  /\ crashed = FALSE
  /\ pc = [g \in Games |-> "none"]
  /\ North = [g \in Games |-> NoClient]
  /\ South = [g \in Games |-> NoClient]
  /\ side = [g \in Games |-> SideSouth]
  /\ last = [g \in Games |-> 0]
  /\ Moves = [g \in Games |-> << >>]
  /\ Board = [g \in Games |-> makeBoard(BoardSize, BoardInit)]
  /\ timer = [g \in Games |-> 0]
  /\ cli = [g \in Games |-> NoClient]
  /\ opp = [g \in Games |-> NoClient]
  /\ accepted = [g \in Games |-> NoMove]
  /\ status = [s \in Sessions |-> "new"]
  /\ simple = [s \in Sessions |-> FALSE]
  /\ nstop = [s \in Sessions |-> 0]
  /\ nyield = [s \in Sessions |-> 0]
  /\ game = [s \in Sessions |-> NoGame]
  /\ outstanding = [s \in Sessions |-> {}]
  /\ queue = << >>
  /\ death = [g \in Games |-> {}]
  /\ sent = [g \in Games |-> Frame(NoClient, "none", 0)]
  /\ rid = 0

\* Every session is ready.
Init == InitQueue([i \in 1..MaxClients |-> i])

\* Two sessions are ready, the others have not connected.
InitPair == InitQueue(<<1, 2>>)

Alive(s) == status[s] = "alive"

\* The matchmaker pairs the first two live sessions of the queue and
\* spawns a runner for them.
Match(g) ==
  /\ UNCHANGED NotRunner
  /\ ~crashed
  /\ pc[g] = "none"
  /\ \A h \in Games : h < g => pc[h] # "none"
  /\ LET q == SelectSeq(queue, Alive) IN
       /\ Len(q) >= 2
       /\ South' = [South EXCEPT ![g] = q[1]]
       /\ North' = [North EXCEPT ![g] = q[2]]
       /\ queue' = SubSeq(q, 3, Len(q))
  /\ pc' = [pc EXCEPT ![g] = "start"]
  /\ UNCHANGED <<conf, slots, crashed, side, last, Moves, Board, timer, cli, opp,
                 accepted, cvars, death, sent, rid>>

\* A session's connection fails or is closed; a game it belongs to is
\* notified on its death channel.
Kill(s) ==
  /\ UNCHANGED NotRunner
  /\ ~crashed
  /\ Alive(s)
  /\ status' = [status EXCEPT ![s] = "dead"]
  /\ death' = IF game[s] # NoGame
                THEN [death EXCEPT ![game[s]] = @ \cup {s}]
                ELSE death
  /\ UNCHANGED <<conf, slots, crashed, gvars, simple, nstop, nyield, game,
                 outstanding, queue, sent, rid>>

\* FirstState with the request sent to North although South is to move.
FirstStateToNorth(g) ==
  /\ side' = [side EXCEPT ![g] = SideSouth]
  /\ rid' = rid + 1
  /\ last' = [last EXCEPT ![g] = rid + 1]
  /\ sent' = [sent EXCEPT ![g] = Frame(North[g], "state", rid + 1)]
  /\ outstanding' = [outstanding EXCEPT ![North[g]] = @ \cup {rid + 1}]

\* South moves first and receives the first state request (lines 188-189).
FirstState(g) ==
  /\ side' = [side EXCEPT ![g] = SideSouth]
  /\ rid' = rid + 1
  /\ last' = [last EXCEPT ![g] = rid + 1]
  /\ sent' = [sent EXCEPT ![g] = Frame(South[g], "state", rid + 1)]
  /\ outstanding' = [outstanding EXCEPT ![South[g]] = @ \cup {rid + 1}]

\* The registration of lines 179-186 fails: North already has a game, or
\* South has one once North has been given this one.
AlreadyPartOfGame(gm, n, s) ==
  \/ gm[n] # NoGame
  \/ (IF s = n THEN TRUE ELSE gm[s] # NoGame)

\* Game.Start up to the first select: slot, registration, first state
\* request, timer.
Start(g) ==
  /\ UNCHANGED NotRunner
  /\ ~crashed
  /\ pc[g] = "start"
  /\ conf.Slots > 0 => slots > 0
  /\ IF AlreadyPartOfGame(game, North[g], South[g])
       THEN \* panic("Already part of game"); the deferred function runs
            /\ game' = Forget(game, g)
            /\ slots' = slots
            /\ crashed' = TRUE
            /\ pc' = [pc EXCEPT ![g] = "panicked"]
            /\ UNCHANGED <<side, last, timer, outstanding, sent, rid,
                           accepted>>
       ELSE /\ slots' = IF conf.Slots > 0 THEN slots - 1 ELSE slots
            /\ game' = [game EXCEPT ![North[g]] = g, ![South[g]] = g]
            /\ FirstState(g)
            /\ timer' = [timer EXCEPT ![g] = Timeout]
            /\ accepted' = [accepted EXCEPT ![g] = NoMove]
            /\ pc' = [pc EXCEPT ![g] = "waiting"]
            /\ UNCHANGED crashed
  /\ UNCHANGED <<conf, North, South, Moves, Board, cli, opp, status, simple,
                 nstop, nyield, queue, death>>

\* The loop body after the select when next is false (lines 252-256).
Loop(g) ==
  /\ pc' = [pc EXCEPT ![g] = IF Over(Board[g]) THEN "returning" ELSE "waiting"]
  /\ UNCHANGED <<conf, slots, crashed, North, South, side, last, Moves,
                 Board, timer, cli, opp, status, simple, nstop, nyield, game,
                 outstanding, queue, death, rid>>

\* The loop body after the select when next is true (lines 252-286).
\* choice and next are declared inside the loop (lines 198-201) and the
\* two branches that set next (lines 211 and 249) leave choice nil, so the
\* test of line 267 is true and the assignment choice.Pit = ... of line 268
\* dereferences nil: the runner panics after the stop, the deferred
\* function runs and the process terminates.
Advance(g) ==
  IF Over(Board[g])
    THEN /\ pc' = [pc EXCEPT ![g] = "returning"]
         /\ UNCHANGED <<conf, slots, crashed, North, South, side, last,
                        Moves, Board, timer, cli, opp, accepted, cvars, queue,
                        death, sent, rid>>
    ELSE /\ sent' = [sent EXCEPT ![g] = Frame(Current(g), "stop", last[g])]
         /\ outstanding' = [outstanding EXCEPT ![Current(g)] = @ \ {last[g]}]
         /\ nstop' = [nstop EXCEPT ![Current(g)] = @ + 1]
         /\ game' = Forget(game, g)
         /\ slots' = Release(slots)
         /\ crashed' = TRUE
         /\ pc' = [pc EXCEPT ![g] = "panicked"]
         /\ UNCHANGED <<conf, North, South, side, last, Moves, Board, timer,
                        cli, opp, accepted, status, simple, nyield, queue, death,
                        rid>>

\* The ids a client may echo: none (0) or any id a state request can carry.
Refs == 0..MaxGames

MoveMsgs ==
  [Client : Sessions, Pit : 0..BoardSize, Yield : {FALSE}, id : Refs]
    \cup [Client : Sessions, Pit : {0}, Yield : {TRUE}, id : Refs]

\* case m := <-move, a yield (lines 205-211)
Yield(g, m) ==
  IF m.Client # Current(g)
    THEN Loop(g) /\ UNCHANGED <<accepted, sent>>
    ELSE Advance(g)

\* case m := <-move, simple-dialect client with an unanswered stop
\* (lines 212-217)
Discard(g, m) == Loop(g) /\ UNCHANGED <<accepted, sent>>

\* Illegal with the error echoing the id of the state request instead of
\* the id of the move.
IllegalEchoesLast(g, m) ==
  /\ sent' = [sent EXCEPT ![g] = Frame(m.Client, "error", last[g])]
  /\ Loop(g)
  /\ UNCHANGED accepted

\* case m := <-move, illegal pit (lines 218-219)
Illegal(g, m) ==
  /\ sent' = [sent EXCEPT ![g] = Frame(m.Client, "error", m.id)]
  /\ Loop(g)
  /\ UNCHANGED accepted

\* case m := <-move, legal pit (lines 220-223): choice = m, and the
\* iteration ends with next = false, so choice goes out of scope.
Accept(g, m) ==
  /\ accepted' = IF m.Client = Current(g) /\ m.id = last[g]
                   THEN [accepted EXCEPT ![g] = m]
                   ELSE accepted
  /\ Loop(g)
  /\ UNCHANGED sent

RecvMove(g, m) ==
  /\ UNCHANGED NotRunner
  /\ ~crashed
  /\ pc[g] = "waiting"
  /\ Alive(m.Client)
  /\ game[m.Client] = g
  /\ IF m.Yield THEN Yield(g, m)
     ELSE IF simple[m.Client] /\ nstop[m.Client] # nyield[m.Client]
       THEN Discard(g, m)
     ELSE IF ~Legal(Board[g], side[g], m.Pit) THEN Illegal(g, m)
     ELSE Accept(g, m)

\* Time passes on the runner's timer.
Tick(g) ==
  /\ UNCHANGED NotRunner
  /\ ~crashed
  /\ pc[g] = "waiting"
  /\ timer[g] > 0
  /\ timer' = [timer EXCEPT ![g] = @ - 1]
  /\ UNCHANGED <<conf, slots, crashed, pc, North, South, side, last, Moves,
                 Board, cli, opp, accepted, cvars, queue, death, sent, rid>>

\* case <-timer.C (lines 246-249)
Deadline(g) ==
  /\ UNCHANGED NotRunner
  /\ ~crashed
  /\ pc[g] = "waiting"
  /\ timer[g] = 0
  /\ Advance(g)

\* case cli := <-death, up to the sleep (lines 224-233)
DeathRecv(g, c) ==
  /\ UNCHANGED NotRunner
  /\ ~crashed
  /\ pc[g] = "waiting"
  /\ c \in death[g]
  /\ death' = [death EXCEPT ![g] = @ \ {c}]
  /\ cli' = [cli EXCEPT ![g] = c]
  /\ IF North[g] # c /\ South[g] # c
       THEN \* panic("Unrelated death")
            /\ game' = Forget(game, g)
            /\ slots' = Release(slots)
            /\ crashed' = TRUE
            /\ pc' = [pc EXCEPT ![g] = "panicked"]
            /\ UNCHANGED opp
       ELSE /\ opp' = [opp EXCEPT ![g] = Other(g, c)]
            /\ pc' = [pc EXCEPT ![g] = "drain"]
            /\ UNCHANGED <<game, slots, crashed>>
  /\ UNCHANGED <<conf, North, South, side, last, Moves, Board, timer,
                 accepted, status, simple, nstop, nyield, outstanding, queue,
                 sent, rid>>

\* after the sleep (lines 235-245): requeue or kill the opponent, return
DeathFinish(g) ==
  /\ UNCHANGED NotRunner
  /\ ~crashed
  /\ pc[g] = "drain"
  /\ IF opp[g] = NoClient
       THEN \* opp is nil: opp.game = nil / opp.kill() panics
            /\ game' = Forget(game, g)
            /\ slots' = Release(slots)
            /\ crashed' = TRUE
            /\ pc' = [pc EXCEPT ![g] = "panicked"]
            /\ UNCHANGED <<sent, outstanding, queue, status, death>>
       ELSE IF conf.Endless
         THEN /\ IF Current(g) = opp[g]
                   THEN /\ sent' = [sent EXCEPT ![g] =
                                          Frame(opp[g], "stop", last[g])]
                        /\ outstanding' =
                             [outstanding EXCEPT ![opp[g]] = @ \ {last[g]}]
                   ELSE UNCHANGED <<sent, outstanding>>
              /\ game' = [game EXCEPT ![opp[g]] = NoGame]
              /\ queue' = Append(queue, opp[g])
              /\ pc' = [pc EXCEPT ![g] = "returning"]
              /\ UNCHANGED <<slots, crashed, status, death>>
         ELSE /\ status' = [status EXCEPT ![opp[g]] = "dead"]
              /\ death' = IF Alive(opp[g]) /\ game[opp[g]] # NoGame
                            THEN [death EXCEPT ![game[opp[g]]] = @ \cup {opp[g]}]
                            ELSE death
              /\ pc' = [pc EXCEPT ![g] = "returning"]
              /\ UNCHANGED <<slots, crashed, game, sent, outstanding, queue>>
  /\ UNCHANGED <<conf, North, South, side, last, Moves, Board, timer, cli, opp,
                 accepted, simple, nstop, nyield, rid>>

\* return from Start: the deferred function (lines 163-172)
Return(g) ==
  /\ UNCHANGED NotRunner
  /\ ~crashed
  /\ pc[g] = "returning"
  /\ game' = Forget(game, g)
  /\ slots' = Release(slots)
  /\ pc' = [pc EXCEPT ![g] = "done"]
  /\ UNCHANGED <<conf, crashed, North, South, side, last, Moves, Board,
                 timer, cli, opp, accepted, status, simple, nstop, nyield,
                 outstanding, queue, death, sent, rid>>

Next ==
  \/ \E g \in Games : Match(g)
  \/ \E s \in Sessions : Kill(s)
  \/ \E g \in Games : Start(g)
  \/ \E g \in Games : \E m \in MoveMsgs : RecvMove(g, m)
  \/ \E g \in Games : Tick(g)
  \/ \E g \in Games : Deadline(g)
  \/ \E g \in Games : \E c \in Sessions : DeathRecv(g, c)
  \/ \E g \in Games : DeathFinish(g)
  \/ \E g \in Games : Return(g)

\* Every session ready, every message a client can send.
Spec == Init /\ [][Next]_vars

\* One game between two sessions, with every message a client can send.
SpecTurn == InitPair /\ [][Next]_vars

\* Non-yield moves only change accepted and sent (Accept, Illegal,
\* Discard) and no guard reads either, so the life cycle of concurrent
\* games is explored with clients that only yield.
YieldMsgs == {m \in MoveMsgs : m.Yield}

NextGames ==
  \/ \E g \in Games : Match(g)
  \/ \E s \in Sessions : Kill(s)
  \/ \E g \in Games : Start(g)
  \/ \E g \in Games : \E m \in YieldMsgs : RecvMove(g, m)
  \/ \E g \in Games : Tick(g)
  \/ \E g \in Games : Deadline(g)
  \/ \E g \in Games : \E c \in Sessions : DeathRecv(g, c)
  \/ \E g \in Games : DeathFinish(g)
  \/ \E g \in Games : Return(g)

SpecGames == Init /\ [][NextGames]_vars

\* ---- Sequences of Sow calls ----

\* A fresh board of some size and filling; South moves first.
InitBoard ==
  /\ RunnerIdle
  /\ \E size \in 1..MaxSize : \E init \in 1..MaxInit :
       board = makeBoard(size, init)
  /\ mover = SideSouth
  /\ TourIdle
  /\ DbIdle
  /\ V1Idle

\* One pass of the advancing loop (lines 271-280) with the pit chosen:
\* the board is sown and the side flips unless the side moves again.
SowStep(pit) ==
  /\ ~Over(board)
  /\ Legal(board, mover, pit)
  /\ LET r == Sow(board, mover, pit) IN
       /\ board' = r.board
       /\ mover' = IF Over(r.board) \/ r.again THEN mover
                    ELSE Opposite(mover)
  /\ UNCHANGED <<rvars, tvars, dvars, avars>>

NextBoard == \E pit \in 0..(MaxSize - 1) : SowStep(pit)

SpecBoard == InitBoard /\ [][NextBoard]_vars

\* ---- The tournament's task ----

\* The task calls the system while the tournament runs.
Callable == orch.phase = "run" /\ orch.panic = ""

isActive(tt, c) == \E tg \in tt.active : tg.North = c \/ tg.South = c

\* startGame: the game joins the active games and its runner is spawned.
startGame(tt, tg) == [tt EXCEPT !.active = @ \cup {tg}]

\* A client is available: the task owes it a Ready call.
TakeReady(c) ==
  /\ Callable
  /\ c \in orch.avail
  /\ orch' = [orch EXCEPT !.avail = @ \ {c}]

\* A client died: it is forgotten once and gets no further Ready call.
TakeForget(c) ==
  /\ Callable
  /\ c \in hist.entered \ orch.forgotten
  /\ orch' = [orch EXCEPT !.avail = @ \ {c}, !.forgotten = @ \cup {c}]

\* The players of a finished game that are alive are available again.
Freed(tg) == ({tg.North, tg.South} \ {NoClient}) \ orch.forgotten

\* ---- roundRobin ----

\* The games made by the first Ready (lines 357-371).
Pairings(p) ==
  {[North |-> p[x[1]], South |-> p[x[2]]] :
     x \in {y \in (1..Len(p)) \X (1..Len(p)) : y[1] > y[2]}}

\* b1 alone: the new client is North of the pairing.
FitsAsNorth(tg, c, ilc) == tg.North = c /\ tg.South = ilc

\* b1 || b2 of lines 377-378
Fits(tg, c, ilc) ==
  \/ tg.North = c /\ tg.South = ilc
  \/ tg.North = ilc /\ tg.South = c

\* Delete without preserving order (lines 387-389).
DeleteAt(q, i) ==
  [k \in 1..(Len(q) - 1) |-> IF k = i THEN q[Len(q)] ELSE q[k]]

\* roundRobin.Ready (lines 356-402)
roundRobinReady(c) ==
  LET games == IF rr.made THEN rr.games ELSE Pairings(t.participants)
      found == {i \in 1..Len(rr.ready) :
                  \E tg \in games : Fits(tg, c, rr.ready[i])}
  IN /\ hist' = [hist EXCEPT !.generated =
                                 IF rr.made THEN @ ELSE games]
     /\ IF found = {}
          THEN /\ rr' = [rr EXCEPT !.made = TRUE, !.games = games,
                                   !.ready = Append(@, c)]
               /\ UNCHANGED t
          ELSE LET i == CHOOSE k \in found : \A l \in found : k <= l IN
               \E tg \in {g \in games : Fits(g, c, rr.ready[i])} :
                 /\ rr' = [rr EXCEPT !.made = TRUE,
                                     !.games = games \ {tg},
                                     !.ready = DeleteAt(@, i)]
                 /\ t' = startGame(t, tg)

\* roundRobin.Forget (lines 405-411)
roundRobinForget(c) ==
  rr' = [rr EXCEPT !.games =
                     {tg \in @ : tg.North # c /\ tg.South # c}]

\* roundRobin.Over (lines 445-447)
roundRobinOver == rr.made /\ rr.games = {}

\* sort.SliceStable by descending Score (lines 419-421)
InsertDesc(q, x, sc) ==
  LET k == Cardinality({i \in 1..Len(q) : sc[q[i]] >= sc[x]}) IN
    SubSeq(q, 1, k) \o <<x>> \o SubSeq(q, k + 1, Len(q))

RECURSIVE SortDesc(_, _)
SortDesc(q, sc) ==
  IF q = << >> THEN << >>
  ELSE InsertDesc(SortDesc(SubSeq(q, 1, Len(q) - 1), sc), q[Len(q)], sc)

\* The loop of lines 427-429 from n on; -1 when participants[n-1] is
\* read with n = 0 (index out of range).
RECURSIVE Extend(_, _, _)
Extend(q, sc, n) ==
  IF n + 1 < Len(q)
    THEN IF n = 0 THEN 0 - 1
         ELSE IF sc[q[n]] = sc[q[n + 1]] THEN Extend(q, sc, n + 1)
         ELSE n
    ELSE n

\* roundRobin.Deinit (lines 417-440) on the tournament tt
roundRobinDeinit(tt) ==
  LET q == SortDesc(tt.participants, tt.Score)
      n == Extend(q, tt.Score,
                  IF rr.pick > Len(q) THEN Len(q) ELSE rr.pick)
  IN IF n < 0
       THEN /\ t' = [tt EXCEPT !.participants = q]
            /\ orch' = [orch EXCEPT !.panic = "index out of range"]
       ELSE /\ t' = [tt EXCEPT !.participants = SubSeq(q, 1, n)]
            /\ orch' = [orch EXCEPT !.phase = "over"]

\* The tournament's task around the roundRobin system.
ReadyRR(c) ==
  /\ TakeReady(c)
  /\ roundRobinReady(c)
  /\ UNCHANGED <<rnd, se, rvars, bvars, dvars, avars>>

ForgetRR(c) ==
  /\ TakeForget(c)
  /\ roundRobinForget(c)
  /\ UNCHANGED <<t, hist, rnd, se, rvars, bvars, dvars, avars>>

\* A game has finished; roundRobin.Record does nothing (line 414).
RecordRR(tg) ==
  /\ Callable
  /\ tg \in t.active
  /\ t' = [t EXCEPT !.active = @ \ {tg}]
  /\ orch' = [orch EXCEPT !.avail = @ \cup Freed(tg)]
  /\ UNCHANGED <<rr, hist, rnd, se, rvars, bvars, dvars, avars>>

\* Deinit is invoked once after Over.
DeinitRR ==
  /\ Callable
  /\ roundRobinOver
  /\ roundRobinDeinit(t)
  /\ UNCHANGED <<rr, hist, rnd, se, rvars, bvars, dvars, avars>>

\* A game earns a participant a point (scoring is external to the
\* system).
AddScore(c) ==
  /\ Callable
  /\ c \in hist.entered
  /\ t.Score[c] < MaxScore
  /\ t' = [t EXCEPT !.Score[c] = @ + 1]
  /\ UNCHANGED <<rr, orch, hist, rnd, se, rvars, bvars, dvars, avars>>

\* Scheduling of a round-robin tournament.  pick and Score are read by
\* Deinit only; here pick is 1 and the scores stay 0.
InitRR ==
  /\ RunnerIdle
  /\ BoardIdle
  /\ DbIdle
  /\ V1Idle
  /\ \E n \in 1..MaxPart : Tournament(n, 1)

NextRR ==
  \/ \E c \in Clients : ReadyRR(c)
  \/ \E c \in Clients : ForgetRR(c)
  \/ \E tg \in [North : Clients, South : Clients] : RecordRR(tg)
  \/ DeinitRR

SpecRR == InitRR /\ [][NextRR]_vars

\* The end of a round-robin tournament: every game has been started and
\* has finished, with any pick and any scores.
InitDeinit ==
  /\ RunnerIdle
  /\ BoardIdle
  /\ DbIdle
  /\ V1Idle
  /\ \E n \in 1..MaxPart : \E k \in 0..MaxPick :
       /\ t = [participants |-> [i \in 1..n |-> i],
               Score |-> [c \in Clients |-> 0],
               active |-> {}]
       /\ rr = [made |-> TRUE, games |-> {}, ready |-> << >>, pick |-> k]
       /\ rnd = [made |-> FALSE, done |-> {}]
       /\ se = [elim |-> << >>]
       /\ orch = [avail |-> 1..n, forgotten |-> {}, phase |-> "run",
                  panic |-> ""]
       /\ hist = [entered |-> 1..n,
                  generated |-> Pairings([i \in 1..n |-> i]),
                  winners |-> {}]

NextDeinit ==
  \/ \E c \in Clients : AddScore(c)
  \/ DeinitRR

SpecDeinit == InitDeinit /\ [][NextDeinit]_vars

\* ---- random ----
Outcomes == {WIN, DRAW, LOSS, RESIGN}

\* random.Ready (lines 459-474); the nil client is put into done when
\* the map is made.
randomReady(c) ==
  LET done == IF rnd.made THEN rnd.done ELSE {NoClient} IN
    /\ rnd' = [rnd EXCEPT !.made = TRUE, !.done = done]
    /\ t' = IF c \in done
              THEN t
              ELSE startGame(t, [North |-> NoClient, South |-> c])

\* The first index of q that holds c, 0 when there is none.
IndexOf(q, c) ==
  IF \E i \in 1..Len(q) : q[i] = c
    THEN CHOOSE i \in 1..Len(q) :
           q[i] = c /\ \A k \in 1..(i - 1) : q[k] # c
    ELSE 0

\* Record with the list cut by one without moving its last element.
randomRecordDropsLast(tt, tg, o) ==
  LET c == tg.South
      i == IndexOf(tt.participants, c)
  IN /\ t' = IF o = WIN \/ i = 0
                THEN tt
                ELSE [tt EXCEPT !.participants =
                                  SubSeq(@, 1, Len(@) - 1)]
     /\ rnd' = [rnd EXCEPT !.done = @ \cup {c}]

\* random.Record (lines 482-503) on the tournament tt
randomRecord(tt, tg, o) ==
  LET c == tg.South
      i == IndexOf(tt.participants, c)
  IN /\ t' = IF o = WIN \/ i = 0
                THEN tt
                ELSE [tt EXCEPT !.participants = DeleteAt(@, i)]
     /\ rnd' = [rnd EXCEPT !.done = @ \cup {c}]

\* random.Over (lines 506-508); a nil map has length 0.
randomOver ==
  Len(t.participants) <= Cardinality(IF rnd.made THEN rnd.done ELSE {})

\* The tournament's task around the random system.
ReadyRnd(c) ==
  /\ TakeReady(c)
  /\ randomReady(c)
  /\ UNCHANGED <<rr, se, hist, rvars, bvars, dvars, avars>>

\* random.Forget only logs (lines 477-479).
ForgetRnd(c) ==
  /\ TakeForget(c)
  /\ UNCHANGED <<t, rr, rnd, se, hist, rvars, bvars, dvars, avars>>

\* The game of a participant against the random agent has finished
\* with outcome o for South.
RecordRnd(tg, o) ==
  /\ Callable
  /\ tg \in t.active
  /\ orch' = [orch EXCEPT !.avail = @ \cup Freed(tg)]
  /\ hist' = [hist EXCEPT !.winners =
                             IF o = WIN THEN @ \cup {tg.South} ELSE @]
  /\ randomRecord([t EXCEPT !.active = @ \ {tg}], tg, o)
  /\ UNCHANGED <<rr, se, rvars, bvars, dvars, avars>>

\* random.Deinit does nothing (line 511).
DeinitRnd ==
  /\ Callable
  /\ randomOver
  /\ orch' = [orch EXCEPT !.phase = "over"]
  /\ UNCHANGED <<t, rr, rnd, se, hist, rvars, bvars, dvars, avars>>

InitRnd ==
  /\ RunnerIdle
  /\ BoardIdle
  /\ DbIdle
  /\ V1Idle
  /\ \E n \in 1..MaxPart : Tournament(n, 0)

NextRnd ==
  \/ \E c \in Clients : ReadyRnd(c)
  \/ \E c \in Clients : ForgetRnd(c)
  \/ \E tg \in [North : {NoClient}, South : Clients] :
       \E o \in Outcomes : RecordRnd(tg, o)
  \/ DeinitRnd

SpecRnd == InitRnd /\ [][NextRnd]_vars

\* ---- singleElim ----

\* singleElim.eliminated (lines 524-531)
eliminated(el, c) == \E i \in 1..Len(el) : el[i] = c

\* The inner loop of start (lines 540-552) for the client at index i:
\* ilc is read at index i for every j.
Inner(tt, el, i) ==
  LET p == tt.participants
      ilc == p[i]
      js == {j \in (i + 1)..Len(p) :
               ~(eliminated(el, ilc) \/ isActive(tt, ilc))}
  IN IF js = {} THEN tt
     ELSE startGame(tt, [South |-> p[i], North |-> ilc])

\* singleElim.start (lines 534-554) from index i on
RECURSIVE singleElimStart(_, _, _)
singleElimStart(tt, el, i) ==
  IF i > Len(tt.participants) THEN tt
  ELSE IF eliminated(el, tt.participants[i])
            \/ isActive(tt, tt.participants[i])
    THEN singleElimStart(tt, el, i + 1)
  ELSE singleElimStart(Inner(tt, el, i), el, i + 1)

\* singleElim.Over (lines 581-583)
singleElimOver(tt, el) == Len(tt.participants) = Len(el) + 1

\* Game.Result: the loser or the resigner of the game, or a draw.
Results(tg) ==
  ({LOSS, RESIGN} \X {tg.South, tg.North}) \cup {<<DRAW, NoClient>>}

\* singleElim.Ready (lines 557-559)
ReadySE(c) ==
  /\ TakeReady(c)
  /\ t' = singleElimStart(t, se.elim, 1)
  /\ UNCHANGED <<se, rr, rnd, hist, rvars, bvars, dvars, avars>>

\* singleElim.Forget (lines 562-564)
ForgetSE(c) ==
  /\ TakeForget(c)
  /\ se' = [se EXCEPT !.elim = Append(@, c)]
  /\ UNCHANGED <<t, rr, rnd, hist, rvars, bvars, dvars, avars>>

\* singleElim.Record (lines 567-578) for a game that has finished with
\* the result r
RecordSE(tg, r) ==
  /\ Callable
  /\ tg \in t.active
  /\ r \in Results(tg)
  /\ orch' = [orch EXCEPT !.avail = @ \cup Freed(tg)]
  /\ LET tt == [t EXCEPT !.active = @ \ {tg}]
         el == IF r[1] = RESIGN \/ r[1] = LOSS
                 THEN Append(se.elim, r[2])
                 ELSE se.elim
     IN /\ se' = [se EXCEPT !.elim = el]
        /\ t' = IF singleElimOver(tt, el) THEN tt
                ELSE singleElimStart(tt, el, 1)
  /\ UNCHANGED <<rr, rnd, hist, rvars, bvars, dvars, avars>>

\* singleElim.Deinit (lines 586-594)
DeinitSE ==
  /\ Callable
  /\ singleElimOver(t, se.elim)
  /\ LET left == {i \in 1..Len(t.participants) :
                    ~eliminated(se.elim, t.participants[i])}
     IN IF left = {}
          THEN /\ orch' = [orch EXCEPT !.panic =
                                         "All agents have been eliminated"]
               /\ UNCHANGED t
          ELSE /\ orch' = [orch EXCEPT !.phase = "over"]
               /\ t' = [t EXCEPT !.participants =
                           <<@[CHOOSE i \in left : \A k \in left : i <= k]>>]
  /\ UNCHANGED <<se, rr, rnd, hist, rvars, bvars, dvars, avars>>

InitSE ==
  /\ RunnerIdle
  /\ BoardIdle
  /\ DbIdle
  /\ V1Idle
  /\ \E n \in 1..MaxPart : Tournament(n, 0)

NextSE ==
  \/ \E c \in Clients : ReadySE(c)
  \/ \E c \in Clients : ForgetSE(c)
  \/ \E tg \in [North : Clients, South : Clients] :
       \E r \in Outcomes \X (Clients \cup {NoClient}) : RecordSE(tg, r)
  \/ DeinitSE

SpecSE == InitSE /\ [][NextSE]_vars

\* ---- Database: saving users, games and moves ----
\* Token 0 is the empty token of an anonymous user.
Tokens == 0..MaxToken
Names == 1..MaxName
Descrs == 1..MaxDescr

\* The agent row that insert-agent writes for the user of side u.
AgentRow(u) ==
  [token |-> mem.Token[u], name |-> mem.Name[u], descr |-> mem.Descr[u]]

\* select-agent-token runs on the read connection: it sees the committed
\* rows only.  0 stands for a failed query or an empty result; with several
\* rows of one token the first row of the result is any of them.
Select(u) ==
  {0} \cup {i \in 1..Len(store.agent) :
              mem.Token[u] # 0 /\ store.agent[i].token = mem.Token[u]}

\* The transaction on the write connection starts from the committed rows.
Begin ==
  [agent |-> store.agent, game |-> store.game, moves |-> store.moves,
   uId |-> mem.uId, gId |-> mem.gId]

\* saveUser: sel is the row the select returned, ins whether insert-agent
\* succeeds.  u.Id is assigned from the row before name and descr are
\* compared.
saveUser(x, u, sel, ins) ==
  IF x.uId[u] # 0 THEN [x |-> x, ok |-> TRUE]
  ELSE
    LET found == mem.Token[u] # 0 /\ sel # 0
        y == IF found THEN [x EXCEPT !.uId[u] = sel] ELSE x
    IN  IF found /\ store.agent[sel].name = mem.Name[u]
                 /\ store.agent[sel].descr = mem.Descr[u]
          THEN [x |-> y, ok |-> TRUE]
        ELSE IF ins
          THEN [x |-> [y EXCEPT !.agent = Append(@, AgentRow(u)),
                                !.uId[u] = Len(y.agent) + 1],
                ok |-> TRUE]
        ELSE [x |-> y, ok |-> FALSE]

\* foreign_keys = on: a game row names two agent rows.
Known(x, id) == id \in 1..Len(x.agent)

\* saveGame: insert-game on the first save, update-game afterwards.
saveGame(x, ok) ==
  IF x.gId = 0
    THEN IF ok /\ Known(x, x.uId[SideNorth]) /\ Known(x, x.uId[SideSouth])
           THEN [x |-> [x EXCEPT
                          !.game = Append(@, [north |-> x.uId[SideNorth],
                                              south |-> x.uId[SideSouth],
                                              state |-> mem.State]),
                          !.gId = Len(x.game) + 1],
                 ok |-> TRUE]
         ELSE [x |-> x, ok |-> FALSE]
  ELSE IF ok
    THEN [x |-> IF x.gId \in 1..Len(x.game)
                  THEN [x EXCEPT !.game[x.gId].state = mem.State]
                ELSE x,
          ok |-> TRUE]
  ELSE [x |-> x, ok |-> FALSE]

\* The end of a call: Commit, or the deferred Rollback.  The Ids assigned
\* to the objects in memory stay in either case.
Finish(op, x, sOk, nOk, gOk, mOk, commit) ==
  /\ store' = IF commit
                THEN [agent |-> x.agent, game |-> x.game, moves |-> x.moves]
              ELSE store
  /\ mem' = [mem EXCEPT !.uId = x.uId, !.gId = x.gId]
  /\ dbres' = [op |-> op, begin |-> TRUE, south |-> sOk, north |-> nOk,
               game |-> gOk, move |-> mOk, commit |-> commit]

\* BeginTx failed: the call returns at once.
Refused(op) ==
  /\ dbres' = [NoCall EXCEPT !.op = op]
  /\ UNCHANGED <<store, mem>>

\* Room for the rows one call can insert.
Room ==
  /\ Len(store.agent) + Cardinality({u \in Sides : mem.uId[u] = 0}) <= MaxRows
  /\ Len(store.game) < MaxGameRows
  /\ store.moves < MaxMoves

\* What a saveUser call can do: every row the select may return, with
\* insert-agent succeeding or failing.
saveUserOutcomes(x, u) ==
  {saveUser(x, u, sel, ins) : sel \in Select(u), ins \in BOOLEAN}

\* What a saveGame call can do: its statement succeeds or fails.
saveGameOutcomes(x) == {saveGame(x, ok) : ok \in BOOLEAN}

\* db.SaveGame: the results of the two saveUser calls are not looked at.
SaveGame ==
  /\ Room
  /\ \/ Refused("SaveGame")
     \/ \E s \in saveUserOutcomes(Begin, SideSouth) :
        \E n \in saveUserOutcomes(s.x, SideNorth) :
        \E g \in saveGameOutcomes(n.x) :
        \E commitOk \in IF g.ok THEN BOOLEAN ELSE {FALSE} :
          Finish("SaveGame", g.x, s.ok, n.ok, g.ok, FALSE, commitOk)
  /\ UNCHANGED <<rvars, bvars, tvars, avars>>

\* db.SaveMove: returns at the first sub-step that fails.
SaveMove ==
  /\ Room
  /\ \/ Refused("SaveMove")
     \/ \E s \in saveUserOutcomes(Begin, SideSouth) :
          IF ~s.ok
            THEN Finish("SaveMove", s.x, FALSE, FALSE, FALSE, FALSE, FALSE)
          ELSE \E n \in saveUserOutcomes(s.x, SideNorth) :
            IF ~n.ok
              THEN Finish("SaveMove", n.x, TRUE, FALSE, FALSE, FALSE, FALSE)
            ELSE \E g \in saveGameOutcomes(n.x) :
              IF ~g.ok
                THEN Finish("SaveMove", g.x, TRUE, TRUE, FALSE, FALSE, FALSE)
              ELSE \E moveOk \in BOOLEAN :
                IF ~moveOk
                  THEN Finish("SaveMove", g.x, TRUE, TRUE, TRUE, FALSE, FALSE)
                ELSE \E commitOk \in BOOLEAN :
                  Finish("SaveMove", [g.x EXCEPT !.moves = @ + 1],
                         TRUE, TRUE, TRUE, TRUE, commitOk)
  /\ UNCHANGED <<rvars, bvars, tvars, avars>>

\* A new connection takes side u: a fresh User that was never saved.
Connect(u, tok, nm, ds) ==
  /\ mem' = [mem EXCEPT !.uId[u] = 0, !.Token[u] = tok, !.Name[u] = nm,
                        !.Descr[u] = ds, !.gId = 0, !.State = 0]
  /\ dbres' = NoCall
  /\ UNCHANGED <<store, rvars, bvars, tvars, avars>>

\* The same two sessions are matched again: a fresh Game.
NewGame ==
  /\ mem.gId # 0
  /\ mem' = [mem EXCEPT !.gId = 0, !.State = 0]
  /\ dbres' = NoCall
  /\ UNCHANGED <<store, rvars, bvars, tvars, avars>>

\* The game goes on: its state string changes.
Progress ==
  /\ mem.State = 0
  /\ mem' = [mem EXCEPT !.State = 1]
  /\ dbres' = NoCall
  /\ UNCHANGED <<store, rvars, bvars, tvars, avars>>

InitDb ==
  /\ RunnerIdle
  /\ BoardIdle
  /\ TourIdle
  /\ V1Idle
  /\ \E tok \in [Sides -> Tokens], nm \in [Sides -> Names],
        ds \in [Sides -> Descrs] : Database(tok, nm, ds)

NextDb ==
  \/ SaveGame
  \/ SaveMove
  \/ \E u \in Sides, tok \in Tokens, nm \in Names, ds \in Descrs :
       Connect(u, tok, nm, ds)
  \/ NewGame
  \/ Progress

SpecDb == InitDb /\ [][NextDb]_vars

\* ---- Query operations of both database versions ----
\* The operations of the first version are marked v1.
QueryOps ==
  {"v1.QueryAgent", "v1.QueryGame", "v1.QueryGames", "v1.QueryAgents",
   "QueryGame", "QueryGames", "QueryUsers"}

\* The operations that begin with defer close(...).
Deferred(op) == op \in {"QueryGame", "QueryGames", "QueryUsers"}

\* The channels the caller supplies.
ChansOf(op) == IF op = "QueryGame" THEN {"gc", "mc"} ELSE {"c"}

\* The statements run before the loop over the rows.
Statements(op) ==
  IF op = "v1.QueryGame" THEN 4 ELSE IF op = "QueryGame" THEN 2 ELSE 1

close(ch, cs) ==
  [c \in ChanNames |->
     IF c \in cs THEN [ch[c] EXCEPT !.closes = @ + 1] ELSE ch[c]]

\* A send completes when the consumer receives the value.
send(ch, c) == [ch EXCEPT ![c].got = @ + 1]

\* return on the success path: only the deferred closes run.
Returns(op, ch) == IF Deferred(op) THEN close(ch, ChansOf(op)) ELSE ch

\* return on an error: close(c) before the return in the first version,
\* the deferred closes in the second.
Fails(op, ch) == close(ch, ChansOf(op))

\* A caller runs op on a result of n rows with channels of its own.
Call(op, n) ==
  /\ qry.pc \in {"none", "returned"}
  /\ qry' = [op |-> op, pc |-> "prelude", stmt |-> 1, rows |-> n]
  /\ chans' = Fresh
  /\ UNCHANGED <<dbact, coord, wg, rvars, bvars, tvars, dvars>>

\* One statement before the loop; the game of QueryGame and the client of
\* v1.QueryAgent are sent as soon as they are read.
Statement(ok) ==
  /\ qry.pc = "prelude"
  /\ IF ~ok
       THEN /\ chans' = Fails(qry.op, chans)
            /\ qry' = [qry EXCEPT !.pc = "returned"]
     ELSE IF qry.op = "v1.QueryAgent"
       THEN /\ chans' = Returns(qry.op, send(chans, "c"))
            /\ qry' = [qry EXCEPT !.pc = "returned"]
     ELSE /\ chans' = IF qry.op = "QueryGame" /\ qry.stmt = 1
                        THEN send(chans, "gc")
                      ELSE chans
          /\ qry' = [qry EXCEPT
                       !.stmt = @ + 1,
                       !.pc = IF qry.stmt = Statements(qry.op)
                                THEN "rows" ELSE "prelude"]
  /\ UNCHANGED <<dbact, coord, wg, rvars, bvars, tvars, dvars>>

\* One pass of the loop over the rows: the scan fails, the move read does
\* not fit the game, or the row is sent.
Row(ok, fits) ==
  /\ qry.pc = "rows"
  /\ qry.rows > 0
  /\ IF ~ok
       THEN /\ chans' = Fails(qry.op, chans)
            /\ qry' = [qry EXCEPT !.pc = "returned"]
     ELSE IF qry.op = "v1.QueryGame"
       THEN /\ chans' = chans
            /\ qry' = IF fits THEN [qry EXCEPT !.rows = @ - 1]
                      ELSE [qry EXCEPT !.pc = "panicked"]
     ELSE IF qry.op = "QueryGame"
       THEN /\ chans' = IF fits THEN send(chans, "mc") ELSE chans
            /\ qry' = [qry EXCEPT !.rows = IF fits THEN @ - 1 ELSE 0]
     ELSE /\ chans' = send(chans, "c")
          /\ qry' = [qry EXCEPT !.rows = @ - 1]
  /\ UNCHANGED <<dbact, coord, wg, rvars, bvars, tvars, dvars>>

\* The rows are exhausted: v1.QueryGame sends the replayed game, and the
\* operation returns.
End ==
  /\ qry.pc = "rows"
  /\ qry.rows = 0
  /\ chans' = Returns(qry.op, IF qry.op = "v1.QueryGame"
                                THEN send(chans, "c") ELSE chans)
  /\ qry' = [qry EXCEPT !.pc = "returned"]
  /\ UNCHANGED <<dbact, coord, wg, rvars, bvars, tvars, dvars>>

InitIdle ==
  /\ RunnerIdle
  /\ BoardIdle
  /\ TourIdle
  /\ DbIdle
  /\ V1Idle

NextQuery ==
  \/ \E op \in QueryOps, n \in 0..MaxResults : Call(op, n)
  \/ \E ok \in BOOLEAN : Statement(ok)
  \/ \E ok, fits \in BOOLEAN : Row(ok, fits)
  \/ End

SpecQuery == InitIdle /\ [][NextQuery]_vars

\* ---- The action channel and its consumer (manageDatabase) ----
Producers == 1..MaxProducers

\* Receive with the newest action taken first.
ReceiveLast(q) == [act |-> q[Len(q)], rest |-> SubSeq(q, 1, Len(q) - 1)]

\* for act := range dbact: a buffered channel hands out the oldest value.
Receive(q) == [act |-> Head(q), rest |-> Tail(q)]

\* dbact <- action by producer p; the action will return an error or nil.
\* Producers send while the process runs, not after the shutdown.
Send(p, fails) ==
  /\ coord.sends < MaxActions
  /\ Len(dbact.buf) < Capacity
  /\ dbact.closes = 0
  /\ dbact' = [dbact EXCEPT !.buf = Append(@, [id |-> coord.sends + 1,
                                               by |-> p, fails |-> fails,
                                               upd |-> "none",
                                               wait |-> FALSE])]
  /\ coord' = [coord EXCEPT !.sends = @ + 1]
  /\ UNCHANGED <<wg, qry, chans, rvars, bvars, tvars, dvars>>

\* The action returned by Client.UpdateDatabase(wait) when it is run:
\* act.upd says whether the insert fails, the scan of the row fails, or
\* neither; act.wait whether wait is non-nil. A failed insert returns the
\* error at once; otherwise wait.Done is called when wait is non-nil. The
\* value is the number of calls of Done afterwards.
UpdateDatabase(w, act) ==
  IF act.upd \in {"none", "insert"} THEN w
  ELSE IF act.wait THEN w + 1
  ELSE w

\* A task asks for a client to be saved: it sends cli.UpdateDatabase(wait).
\* The action returns an error only when its insert fails.
SendUpdate(p, out, wait) ==
  /\ coord.sends < MaxActions
  /\ Len(dbact.buf) < Capacity
  /\ dbact.closes = 0
  /\ dbact' = [dbact EXCEPT !.buf = Append(@, [id |-> coord.sends + 1,
                                               by |-> p,
                                               fails |-> out = "insert",
                                               upd |-> out,
                                               wait |-> wait])]
  /\ coord' = [coord EXCEPT !.sends = @ + 1]
  /\ UNCHANGED <<wg, qry, chans, rvars, bvars, tvars, dvars>>

\* One pass of the consumer loop: err := act(db), logged when not nil.
Apply ==
  /\ coord.pc = "loop"
  /\ dbact.buf # << >>
  /\ LET r == Receive(dbact.buf) IN
       /\ dbact' = [dbact EXCEPT !.buf = r.rest]
       /\ coord' = [coord EXCEPT
                      !.applied = Append(@, r.act),
                      !.logged = IF r.act.fails THEN Append(@, r.act.id)
                                 ELSE @]
       /\ wg' = UpdateDatabase(wg, r.act)
  /\ UNCHANGED <<qry, chans, rvars, bvars, tvars, dvars>>

\* The orchestrator shuts the coordinator down: it closes the channel.
Shutdown ==
  /\ dbact.closes = 0
  /\ dbact' = [dbact EXCEPT !.closes = 1]
  /\ UNCHANGED <<coord, wg, qry, chans, rvars, bvars, tvars, dvars>>

\* The range loop ends on the closed and drained channel; the deferred
\* close(dbact) of manageDatabase runs, and closing a closed channel
\* panics.
Terminate ==
  /\ coord.pc = "loop"
  /\ dbact.buf = << >>
  /\ dbact.closes > 0
  /\ dbact' = [dbact EXCEPT !.closes = @ + 1]
  /\ coord' = [coord EXCEPT !.pc = "panicked"]
  /\ UNCHANGED <<wg, qry, chans, rvars, bvars, tvars, dvars>>

NextCoord ==
  \/ \E p \in Producers, fails \in BOOLEAN : Send(p, fails)
  \/ Apply
  \/ Shutdown
  \/ Terminate

SpecCoord == InitIdle /\ [][NextCoord]_vars

\* Clients are saved through the action channel.
NextUpdate ==
  \/ \E p \in Producers, out \in {"insert", "scan", "ok"},
        wait \in BOOLEAN : SendUpdate(p, out, wait)
  \/ Apply

SpecUpdate == InitIdle /\ [][NextUpdate]_vars

\* ---- Properties of the board ----

\* C11: every board reached from a fresh board of (size, init) by Sow
\* calls holds 2*size*init stones in its pits and stores, none of them
\* negative.
C11_StoneConservation ==
  /\ Stones(board) = 2 * Len(board.south) * board.init
  /\ \A i \in 1..Len(board.south) : board.south[i] >= 0 /\ board.north[i] >= 0
  /\ board.southStore >= 0
  /\ board.northStore >= 0

\* A game played to its end on the largest board, with a store that
\* holds more than sowing alone puts there in one move.
C11_Witness ==
  /\ Len(board.south) = MaxSize
  /\ board.init = MaxInit
  /\ Over(board)
  /\ board.southStore > 0
  /\ board.northStore > 0

\* ---- Properties of the tournament systems ----

\* C12: a round-robin tournament of 4 participants generates exactly 6
\* games, and Over is false as long as a generated pairing has been
\* started but has not completed its game.
C12_OverOnlyAfterAllCompleted ==
  /\ (rr.made /\ Cardinality(hist.entered) = 4) =>
       Cardinality(hist.generated) = 6
  /\ roundRobinOver => t.active = {}

\* C13: roundRobin.Deinit does not fail, and after it the participants
\* are in descending Score order and are the top pick of those that
\* entered (all of them when pick is at least their number) together
\* with every participant tied with the last of these, the lowest-ranked
\* included, and nobody else.
C13_DeinitKeepsTopThroughTies ==
  /\ orch.panic = ""
  /\ orch.phase = "over" =>
       LET p == t.participants
           sc == t.Score
           kept == {p[i] : i \in 1..Len(p)}
           want == IF rr.pick > Cardinality(hist.entered)
                     THEN Cardinality(hist.entered)
                     ELSE rr.pick
       IN /\ \A i \in 1..(Len(p) - 1) : sc[p[i]] >= sc[p[i + 1]]
          /\ Cardinality(kept) = Len(p)
          /\ kept \subseteq hist.entered
          /\ Len(p) >= want
          /\ \A c \in hist.entered \ kept : \A d \in kept : sc[c] < sc[d]
          /\ Len(p) > want => (want > 0 /\ sc[p[Len(p)]] = sc[p[want]])

\* C14: in a random-baseline tournament Over(t) is true exactly when
\* every client in t.participants has had its game recorded.
C14_OverIffAllDone ==
  randomOver <=>
    \A i \in 1..Len(t.participants) :
      rnd.made /\ t.participants[i] \in rnd.done

\* Every client that entered has had its game recorded.
AllRecorded == rnd.made /\ hist.entered \subseteq rnd.done

\* C15: once the game of every initial participant has been recorded,
\* t.participants holds exactly the participants whose outcome was WIN,
\* each once, before and after Deinit.
C15_ParticipantsAreWinners ==
  AllRecorded =>
    /\ {t.participants[i] : i \in 1..Len(t.participants)} = hist.winners
    /\ Len(t.participants) = Cardinality(hist.winners)

\* Three participants, two of which did not win: after Deinit the list
\* has length 1 and holds the winner.
C15_Witness ==
  /\ AllRecorded
  /\ orch.phase = "over"
  /\ hist.entered = 1..3
  /\ Cardinality(hist.entered \ hist.winners) = 2
  /\ Len(t.participants) = 1
  /\ t.participants[1] \in hist.winners

\* The clients that play in the game tg.
Players(tg) == {tg.North, tg.South} \ {NoClient}

\* C16: every game submitted by singleElim.start has two distinct
\* participants as South and North, both non-eliminated and neither in
\* another active game when it is submitted.
C16_SubmittedPairIsFree ==
  [][\A tg \in t'.active \ t.active :
       /\ tg.South # tg.North
       /\ \A c \in {tg.South, tg.North} :
            /\ \E i \in 1..Len(t.participants) : t.participants[i] = c
            /\ ~eliminated(se'.elim, c)
            /\ ~isActive([t' EXCEPT !.active = @ \ {tg}], c)]_vars

\* C17: while Ready, Forget and Record are called, singleElim.Over is
\* true exactly when one member of t.participants is not eliminated.
C17_OverIffOneLeft ==
  orch.phase = "run" =>
    (singleElimOver(t, se.elim) <=>
       Cardinality({i \in 1..Len(t.participants) :
                      ~eliminated(se.elim, t.participants[i])}) = 1)

\* The game references the clients hold when the runner of tg starts:
\* those of the other active games.
RefsAt(tg) ==
  [c \in Clients |->
     IF isActive([t EXCEPT !.active = @ \ {tg}], c) THEN 1 ELSE NoGame]

\* C18: no client is a player of two active games of a tournament, and
\* no game started by the tournament fails in Game.Start with 'Already
\* part of game'.
C18_OneActiveGamePerClient ==
  \A tg \in t.active :
    /\ \A other \in t.active \ {tg} : Players(tg) \cap Players(other) = {}
    /\ ~AlreadyPartOfGame(RefsAt(tg), tg.North, tg.South)

\* C29: in a round-robin tournament no two distinct clients of the ready
\* list have an unplayed pairing between them in the set of games.
C29_NoReadyPairLeftWaiting ==
  \A i, j \in 1..Len(rr.ready) :
    rr.ready[i] # rr.ready[j]
      => ~\E tg \in rr.games :
            {tg.North, tg.South} = {rr.ready[i], rr.ready[j]}

\* Two clients wait in the ready list while pairings are still unplayed.
C29_Witness ==
  /\ rr.games # {}
  /\ \E i, j \in 1..Len(rr.ready) : rr.ready[i] # rr.ready[j]

\* ---- Properties of the database ----
\* C19: SaveGame is atomic over its sub-steps: a call in which the upsert of
\* the South user, of the North user or of the game failed commits no agent
\* row and no game row; rows are committed only when every sub-step
\* succeeded.
C19_SaveGameIsAtomic ==
  [][(dbres'.op = "SaveGame" /\ store' # store)
       => (dbres'.south /\ dbres'.north /\ dbres'.game)]_vars

\* C20: a user with Id 0 and a non-empty token whose (token, name, descr)
\* equal those of an agent already saved, by a committed earlier call or by
\* the upsert of the other player earlier in the same SaveGame or SaveMove
\* call, gets that agent's Id and no new agent row whenever its upsert
\* succeeds.
C20_SameIdentitySameId ==
  [][\A u \in Sides :
       LET upserted == /\ dbres'.op \in {"SaveGame", "SaveMove"}
                       /\ IF u = SideSouth THEN dbres'.south ELSE dbres'.north
           before == {i \in 1..Len(store.agent) : store.agent[i] = AgentRow(u)}
           earlier == IF /\ u = SideNorth
                         /\ mem.uId[SideSouth] = 0
                         /\ dbres'.south
                         /\ AgentRow(SideSouth) = AgentRow(u)
                        THEN {mem'.uId[SideSouth]}
                      ELSE {}
       IN  (/\ upserted
            /\ mem.uId[u] = 0
            /\ mem.Token[u] # 0
            /\ before \cup earlier # {})
             => mem'.uId[u] \in before \cup earlier]_vars

\* C30: a SaveGame or SaveMove call that ends without committing leaves the
\* Id of the game and of both users in memory as they were before the call.
C30_RollbackKeepsIds ==
  [][(dbres'.op \in {"SaveGame", "SaveMove"} /\ ~dbres'.commit)
       => (mem'.uId = mem.uId /\ mem'.gId = mem.gId)]_vars

\* ---- Properties of the query operations ----
\* C21: every query operation of both versions has closed each channel of
\* its caller exactly once when it returns, after a success as after an
\* error, and no channel is closed twice.
C21_ChannelsClosedOnce ==
  /\ qry.pc = "returned"
       => \A c \in ChansOf(qry.op) : chans[c].closes = 1
  /\ \A c \in ChanNames : chans[c].closes <= 1

\* ---- Properties of the action channel ----
\* C22: the consumer applies the actions sent on the action channel one at
\* a time, each exactly once and in the order in which they were sent, by
\* whichever producer; an action that returns an error is logged and the
\* actions behind it are applied all the same.
C22_AppliedInOrder ==
  /\ [i \in 1..Len(coord.applied) |-> coord.applied[i].id]
       \o [i \in 1..Len(dbact.buf) |-> dbact.buf[i].id]
       = [i \in 1..coord.sends |-> i]
  /\ coord.logged =
       LET F(a) == a.fails
           failed == SelectSeq(coord.applied, F)
       IN  [i \in 1..Len(failed) |-> failed[i].id]

\* An action of one producer failed and was logged, and an action of the
\* other producer sent after it has been applied.
C22_Witness ==
  /\ Len(coord.applied) >= 2
  /\ coord.applied[1].fails
  /\ coord.applied[1].by # coord.applied[2].by
  /\ coord.logged # << >>

\* C23: on shutdown the consumer applies every action already queued and
\* its loop ends, and the action channel is closed exactly once.
C23_ClosedOnceAfterDrain ==
  /\ dbact.closes <= 1
  /\ coord.pc # "panicked"
  /\ (dbact.closes = 1 /\ coord.pc # "loop")
       => (dbact.buf = << >> /\ Len(coord.applied) = coord.sends)

\* C31: every run of the action returned by Client.UpdateDatabase(wait)
\* with a non-nil wait calls wait.Done exactly once, after a success and
\* after a failure of the insert or of the scan: the number of calls of
\* Done is the number of such actions the consumer has run, so a task
\* waiting on the WaitGroup is released once they have all run.
C31_DoneOncePerRun ==
  wg = Cardinality({i \in 1..Len(coord.applied) : coord.applied[i].wait})

\* ---- Properties of the game runner ----

\* The runner of g is past slot acquisition and has not returned.
Running(g) == pc[g] \in {"waiting", "drain", "returning"}

\* The turn of g's current side ends in this step: by the deadline or by a
\* yield of the current side.
TurnEnds(g) ==
  \/ Deadline(g)
  \/ \E m \in MoveMsgs : m.Yield /\ m.Client = Current(g) /\ RecvMove(g, m)

\* C2: when the deadline fires and the current side has no accepted move,
\* a random legal move of that side is appended to the move log and sown,
\* and the runner goes on (it neither crashes nor stalls).
C2_DeadlineSubstitutesRandom ==
  [][\A g \in Games :
       (Deadline(g) /\ accepted[g] = NoMove) =>
         /\ Len(Moves'[g]) = Len(Moves[g]) + 1
         /\ Legal(Board[g], side[g], Moves'[g][Len(Moves'[g])].Pit)
         /\ Board'[g] # Board[g]
         /\ pc'[g] \in {"waiting", "returning"}
         /\ ~crashed']_vars

\* C3: when a turn ends after the current side (not simple) had a legal
\* move accepted for the outstanding request, the move added to the log
\* and sown is the most recently accepted one.
C3_AcceptedChoiceIsSown ==
  [][\A g \in Games :
       (TurnEnds(g) /\ accepted[g] # NoMove /\ ~simple[Current(g)]) =>
         /\ Moves'[g] = Append(Moves[g], accepted[g])
         /\ ~crashed']_vars

\* C4: a move or yield from a session that is not the current side's, or
\* echoing an id other than last, is ignored: it is not taken as the
\* choice, does not end the turn, and board, side, last and the move log
\* stay as they are.
C4_StaleOrForeignIgnored ==
  [][\A g \in Games : \A m \in MoveMsgs :
       ((m.Client # Current(g) \/ m.id # last[g]) /\ RecvMove(g, m)) =>
         /\ accepted'[g] = accepted[g]
         /\ pc'[g] = "waiting"
         /\ nstop' = nstop
         /\ Board'[g] = Board[g]
         /\ side'[g] = side[g]
         /\ last'[g] = last[g]
         /\ Moves'[g] = Moves[g]]_vars

\* C5: while a runner waits for a move, exactly one session has an
\* outstanding state request whose id is last, and it is the session of
\* the current side.
C5_TurnUniqueness ==
  \A g \in Games :
    pc[g] = "waiting" =>
      {s \in Sessions : last[g] \in outstanding[s]} = {Current(g)}

C5_Witness ==
  /\ pc[1] = "returning"
  /\ pc[2] = "waiting"
  /\ last[2] \in outstanding[South[2]]
  /\ North[2] \in {North[1], South[1]}

\* C6 as stated: s.game = g iff s is g's North or South session.
C6_SessionGameSymmetry ==
  \A s \in Sessions : \A g \in Games :
    game[s] = g <=> (s = North[g] \/ s = South[g])

\* C6 amended: s.game = g only if s is g's North or South session and g's
\* runner has registered itself and not yet returned.
C6_GameRefImpliesPlayer ==
  \A s \in Sessions : \A g \in Games :
    game[s] = g => ((s = North[g] \/ s = South[g]) /\ Running(g))

C6_Witness ==
  /\ pc[1] = "done"
  /\ pc[2] = "waiting"
  /\ game[North[2]] = 2
  /\ game[South[2]] = 2
  /\ North[1] \in {North[2], South[2]}

\* C7: with a positive Game.Slots the runners between slot acquisition and
\* return never outnumber Game.Slots, and tokens plus such runners always
\* add up to Game.Slots.
C7_SlotBound ==
  conf.Slots > 0 =>
    /\ Cardinality({g \in Games : Running(g)}) <= conf.Slots
    /\ slots + Cardinality({g \in Games : Running(g)}) = conf.Slots

C7_Witness ==
  /\ conf.Slots = 1
  /\ slots = 0
  /\ Running(1)
  /\ pc[2] = "start"

\* The session of g that is not the one whose death was received.
Survivor(g) == IF cli[g] = North[g] THEN South[g] ELSE North[g]

Count(q, s) == Cardinality({i \in 1..Len(q) : q[i] = s})

\* C8: once the death of a session of a running game has been signalled
\* to the runner, the runner finishes (it does not crash on the way), and
\* when it disposes of the survivor it
\* enqueues it exactly once without killing it in Endless mode, and kills
\* it without enqueueing it otherwise.
C8_DeathFinishesGame ==
  [][\A g \in Games :
       ((pc[g] = "waiting" /\ death[g] # {}) \/ pc[g] = "drain") =>
         /\ pc'[g] # "panicked"
         /\ DeathFinish(g) =>
              /\ pc'[g] = "returning"
              /\ conf.Endless =>
                   /\ Count(queue', Survivor(g)) = Count(queue, Survivor(g)) + 1
                   /\ status'[Survivor(g)] = status[Survivor(g)]
              /\ ~conf.Endless =>
                   /\ status'[Survivor(g)] = "dead"
                   /\ queue' = queue]_vars

\* C10: an illegal non-yield move is answered with an error echoing its id;
\* the runner keeps waiting and board, side, last, move log and timer stay
\* as they are.
C10_IllegalMoveRejected ==
  [][\A g \in Games : \A m \in MoveMsgs :
       (~m.Yield /\ ~Legal(Board[g], side[g], m.Pit) /\ RecvMove(g, m)) =>
         /\ sent'[g] = Frame(m.Client, "error", m.id)
         /\ pc'[g] = "waiting"
         /\ Board'[g] = Board[g]
         /\ side'[g] = side[g]
         /\ last'[g] = last[g]
         /\ Moves'[g] = Moves[g]
         /\ timer'[g] = timer[g]]_vars

C10_Witness ==
  \E g \in Games :
    /\ pc[g] = "waiting"
    /\ timer[g] > 0
    /\ sent[g].tag = "error"
    /\ sent[g].to = Current(g)

\* C28: every stop response a runner sends to a session, at the end of a
\* turn and on the Endless death path alike, comes with exactly one
\* increment of that session's nstop.
C28_StopCounted ==
  [][\A g \in Games :
       (sent'[g] # sent[g] /\ sent'[g].tag = "stop")
         => nstop'[sent'[g].to] = nstop[sent'[g].to] + 1]_vars

\* C26: in Endless mode, once the runner of a game ended by a death has
\* enqueued the survivor, the survivor's game reference points to the new
\* game that picked it up for as long as that game is in its loop.
C26_SurvivorKeepsNewGame ==
  \A h, g \in Games :
    (/\ conf.Endless
     /\ pc[h] \in {"returning", "done"}
     /\ opp[h] # NoClient
     /\ g # h
     /\ pc[g] \in {"waiting", "drain"}
     /\ opp[h] \in {North[g], South[g]})
      => game[opp[h]] = g

\* C24: an advancing step that does not end the game sows for the side
\* whose turn ended, flips the side exactly when the sow gave no further
\* move, and re-enters the waiting phase: a fresh state request goes to the
\* side now current, its id is stored in last and the timer is reset.
C24_AdvanceReentersWaiting ==
  [][\A g \in Games :
       (TurnEnds(g) /\ ~Over(Board[g])) =>
         \/ Over(Board'[g]) /\ ~crashed'
         \/ /\ ~crashed'
            /\ pc'[g] = "waiting"
            /\ Len(Moves'[g]) > Len(Moves[g])
            /\ Len(Moves'[g]) = Len(Moves[g]) + 1 =>
                 LET r == Sow(Board[g], side[g],
                              Moves'[g][Len(Moves'[g])].Pit)
                 IN  /\ Board'[g] = r.board
                     /\ side'[g] = IF r.again THEN side[g]
                                   ELSE Opposite(side[g])
            /\ last'[g] \notin {0, last[g]}
            /\ sent'[g] = Frame(Player(g, side'[g]), "state", last'[g])
            /\ timer'[g] = Timeout]_vars

====
